---- MODULE Spec2Model ----
(***************************************************************************)
(* Tool enablement, Google Drive picker validation and the deployment      *)
(* configuration form of the assistants_web interface.                     *)
(*   hooks/tools.ts                      useAvailableTools,                *)
(*                                       useOpenGoogleDrivePicker          *)
(*   components/EditEnvVariablesButton   EditEnvVariablesModal             *)
(* Every handler runs to completion (single-threaded event loop), so each  *)
(* handler is one action.  Each specification below covers one hook or     *)
(* component and leaves the state of the others untouched.                 *)
(***************************************************************************)
EXTENDS Naturals, Sequences, FiniteSets, TLC

VARIABLES
    params,                 \* useParamsStore().params: tools, fileIds, deploymentConfig
    composerFiles,          \* useFilesStore(): files staged in the composer
    defaultFileLoaderTool,  \* useDefaultFileLoaderTool().defaultFileLoaderTool
    toolHistory,            \* the most recent handleToggle calls (newest last)
    env,                    \* env.NEXT_PUBLIC_GOOGLE_DRIVE_CLIENT_ID / _DEVELOPER_KEY
    pickerOpen,             \* the third-party picker widget is showing
    pickerOpens,            \* how many times openPicker was called
    notices,                \* messages passed to useNotify().info, oldest first
    forwarded,              \* arguments callbackFunction was invoked with, oldest first
    lastPick,               \* the most recent picker-side call and what it added
    deploymentsQuery,       \* useListAllDeployments(): {data} (undefined while pending)
    backend,                \* the deployments the backend will answer with
    deployment,             \* useState: selected deployment name
    envVariables,           \* useState: the draft, a JS object (insertion-ordered)
    isSubmitting,           \* useState
    modalOpen,              \* the modal is mounted
    closeCalls,             \* how many times onClose was invoked
    lastForm,               \* the most recent form handler and the state it ran in
    managedTools,           \* useAvailableTools argument (undefined or a catalog)
    agent,                  \* useAvailableTools argument
    memo,                   \* the useMemo cell holding availableTools
    toolsQuery,             \* useListTools(): {data} (undefined while pending)
    hasDismissed,           \* localStorage: unauthedToolsModalDismissed
    dismissed,              \* onDismissed has been invoked in this run
    rendered,               \* what useUnauthedTools / useShowUnauthedToolsModal last returned
    togglePc,               \* where a handleToggle call stands, statement by statement
    newParams,              \* handleToggle's local newParams
    submitPc,               \* where a handleSubmit call stands, statement by statement
    configWrites            \* setParams calls made by handleSubmit

toolVars   == <<params, composerFiles, defaultFileLoaderTool, toolHistory>>
pickerVars == <<env, pickerOpen, pickerOpens, notices, forwarded, lastPick>>
formVars   == <<deploymentsQuery, backend, deployment, envVariables, isSubmitting,
                modalOpen, closeCalls, lastForm>>
availVars  == <<managedTools, agent, memo>>
authVars   == <<toolsQuery, hasDismissed, dismissed, rendered>>
stepVars   == <<togglePc, newParams, submitPc, configWrites>>
vars       == <<toolVars, pickerVars, formVars, availVars, authVars, stepVars>>

\* ------------------------------------------------------------------ bounds

\* Longest EnabledToolSet the model lets handleToggle build.
MaxTools == 3
\* Longest picker selection (data.docs).
MaxDocs == 7
\* Picker-side invocations (open requests and picker results) per run.
MaxPickerCalls == 2
\* Longest env_vars list of a deployment.
MaxEnvVars == 2
\* Longest tool catalog and longest agent allowlist.
MaxCatalog == 2
\* Most deployments in a DeploymentCatalog.
MaxDeployments == 2

\* The picker's file limit: `files.length > 5`.
MaxFiles == 5

\* ------------------------------------------------------------------ helpers

\* All sequences over S of length at most n.
SeqsUpTo(S, n) == UNION {[1..k -> S] : k \in 0..n}

\* The set of elements of a sequence.
Range(s) == {s[i] : i \in DOMAIN s}

\* Array.prototype.filter is SelectSeq: the elements satisfying the test, in order.

\* ------------------------------------------------------------ idle states
\* Each specification holds the other components at these values.

IdleTools ==
    /\ params = [tools |-> <<>>, fileIds |-> <<>>, deploymentConfig |-> ""]
    /\ composerFiles = <<>>
    /\ defaultFileLoaderTool = [defined |-> FALSE, name |-> ""]
    /\ toolHistory = <<>>

IdlePicker ==
    /\ env = [clientId |-> FALSE, developerKey |-> FALSE]
    /\ pickerOpen = FALSE
    /\ pickerOpens = 0
    /\ notices = <<>>
    /\ forwarded = <<>>
    /\ lastPick = [op |-> "none"]

IdleForm ==
    /\ deploymentsQuery = [loaded |-> FALSE, data |-> <<>>]
    /\ backend = <<>>
    /\ deployment = ""
    /\ envVariables = <<>>
    /\ isSubmitting = FALSE
    /\ modalOpen = FALSE
    /\ closeCalls = 0
    /\ lastForm = [op |-> "none"]

IdleAvail ==
    /\ managedTools = [defined |-> FALSE, data |-> <<>>]
    /\ agent = [defined |-> FALSE, hasTools |-> FALSE, tools |-> <<>>]
    /\ memo = [computed |-> FALSE, value |-> <<>>]

IdleAuth ==
    /\ toolsQuery = [loaded |-> FALSE, data |-> <<>>]
    /\ hasDismissed = FALSE
    /\ dismissed = FALSE
    /\ rendered = [unauthedTools |-> <<>>, isToolAuthRequired |-> FALSE, show |-> FALSE]

IdleSteps ==
    /\ togglePc = "idle"
    /\ newParams = [tools |-> <<>>]
    /\ submitPc = "idle"
    /\ configWrites = 0

\* ================================================================== stores

\* useParamsStore().setParams: merge-patch, last write wins per field.
setParams(patch) ==
    params' = [k \in DOMAIN params |->
                 IF k \in DOMAIN patch THEN patch[k] ELSE params[k]]

\* useFilesStore().clearComposerFiles
clearComposerFiles == composerFiles' = <<>>

\* ====================================================== useAvailableTools

ToolNames == {"file_loader", "web_search", "drive"}
NoExtra == "none"
Extras == {NoExtra, "cfg"}
FileIdLists == {<<>>, <<"a">>, <<"a", "b">>}

\* An EnabledToolRef; `{ name }` carries no extra configuration.
ToolRef(n, x) == [name |-> n, extra |-> x]
ToolRefs == {ToolRef(n, x) : n \in ToolNames, x \in Extras}

\* const enabledTools = paramTools ?? [];
\* params.tools is an array in every state of the model, so `?? []` never applies.
enabledTools == params.tools

EnabledNames(ts) == {ts[i].name : i \in DOMAIN ts}
UniqueNames(ts) == \A i, j \in DOMAIN ts : ts[i].name = ts[j].name => i = j
Occurrences(ts, n) == Cardinality({i \in DOMAIN ts : ts[i].name = n})

\* A plausible slip: the filter's comparison inverted (=== for !==).
toggledTools_keepNamed(name, checked) ==
    IF checked
    THEN enabledTools \o <<ToolRef(name, NoExtra)>>
    ELSE LET Keep(enabledTool) == enabledTool.name = name
         IN  SelectSeq(enabledTools, Keep)

\* The `tools` field of newParams.
toggledTools(name, checked) ==
    IF checked
    THEN enabledTools \o <<ToolRef(name, NoExtra)>>
    ELSE LET Keep(enabledTool) == enabledTool.name # name
         IN  SelectSeq(enabledTools, Keep)

\* name === defaultFileLoaderTool?.name
isDefaultFileLoader(name) ==
    defaultFileLoaderTool.defined /\ name = defaultFileLoaderTool.name

\* The record of one handleToggle call: its arguments and the stores it ran on.
ToggleCall(name, checked) ==
    [name |-> name, checked |-> checked, before |-> params, staged |-> composerFiles]

\* The last two calls, newest last.
Remember(history, call) ==
    IF history = <<>> THEN <<call>> ELSE <<history[Len(history)], call>>

\* A plausible slip: the file side effect guarded by `checked` as well, so
\* that unchecking the default file loader leaves the files in place.
handleToggle_noClear(name, checked) ==
    /\ IF isDefaultFileLoader(name) /\ checked
       THEN /\ clearComposerFiles
            /\ setParams([tools |-> toggledTools(name, checked), fileIds |-> <<>>])
       ELSE /\ UNCHANGED composerFiles
            /\ setParams([tools |-> toggledTools(name, checked)])
    /\ toolHistory' = Remember(toolHistory, ToggleCall(name, checked))
    /\ UNCHANGED defaultFileLoaderTool

\* A plausible slip: the file side effect run only when the switch goes off.
handleToggle_onlyOnDisable(name, checked) ==
    /\ IF isDefaultFileLoader(name) /\ ~checked
       THEN /\ clearComposerFiles
            /\ setParams([tools |-> toggledTools(name, checked), fileIds |-> <<>>])
       ELSE /\ UNCHANGED composerFiles
            /\ setParams([tools |-> toggledTools(name, checked)])
    /\ toolHistory' = Remember(toolHistory, ToggleCall(name, checked))
    /\ UNCHANGED defaultFileLoaderTool

\* A plausible slip: the file side effect run for every tool.
handleToggle_alwaysClear(name, checked) ==
    /\ clearComposerFiles
    /\ setParams([tools |-> toggledTools(name, checked), fileIds |-> <<>>])
    /\ toolHistory' = Remember(toolHistory, ToggleCall(name, checked))
    /\ UNCHANGED defaultFileLoaderTool

\* const handleToggle = (name, checked) => { ... setParams(newParams) }
handleToggle(name, checked) ==
    /\ IF isDefaultFileLoader(name)
       THEN /\ clearComposerFiles
            /\ setParams([tools |-> toggledTools(name, checked), fileIds |-> <<>>])
       ELSE /\ UNCHANGED composerFiles
            /\ setParams([tools |-> toggledTools(name, checked)])
    /\ toolHistory' = Remember(toolHistory, ToggleCall(name, checked))
    /\ UNCHANGED defaultFileLoaderTool

\* The user flips a tool's switch.
Toggle ==
    /\ \E name \in ToolNames, checked \in BOOLEAN :
          /\ checked => Len(enabledTools) < MaxTools
          /\ handleToggle(name, checked)
    /\ UNCHANGED <<pickerVars, formVars, availVars, authVars, stepVars>>

\* deploymentConfig as the session may hold it: never set, or saved earlier.
SavedConfigs == {"", "API_KEY=x"}

\* A session with any unique-name EnabledToolSet, any fileIds, any staged files.
InitTools ==
    /\ \E ts \in SeqsUpTo(ToolRefs, MaxTools), ids \in FileIdLists, config \in SavedConfigs :
          /\ UniqueNames(ts)
          /\ params = [tools |-> ts, fileIds |-> ids, deploymentConfig |-> config]
    /\ composerFiles \in FileIdLists
    /\ defaultFileLoaderTool \in {[defined |-> FALSE, name |-> ""],
                                  [defined |-> TRUE, name |-> "file_loader"]}
    /\ toolHistory = <<>>
    /\ IdlePicker /\ IdleForm /\ IdleAvail /\ IdleAuth /\ IdleSteps

NextTools == Toggle

SpecTools == InitTools /\ [][NextTools]_vars

\* The most recent handleToggle call, when there is one.
Toggled == toolHistory # <<>>
LastToggle == toolHistory[Len(toolHistory)]

\* C1: after any sequence of toggles from a unique-name EnabledToolSet, the
\* set holds at most one entry per tool name; toggle(name, true) on a set that
\* already holds name leaves exactly one entry for name.
C1_AtMostOneEntryPerName ==
    /\ UniqueNames(params.tools)
    /\ (Toggled /\ LastToggle.checked) => Occurrences(params.tools, LastToggle.name) = 1

\* C2: toggle(defaultFileLoaderName, false) yields, from any prior state, empty
\* fileIds, an empty staging collection and no entry named defaultFileLoaderName.
C2_DisableDefaultClearsFiles ==
    (Toggled /\ isDefaultFileLoader(LastToggle.name) /\ ~LastToggle.checked)
        => /\ params.fileIds = <<>>
           /\ composerFiles = <<>>
           /\ LastToggle.name \notin EnabledNames(params.tools)

\* The default file loader was unchecked while fileIds, staged files and an
\* entry for it were all present.
C2_Witness ==
    /\ Toggled /\ isDefaultFileLoader(LastToggle.name) /\ ~LastToggle.checked
    /\ Len(LastToggle.before.fileIds) = 2
    /\ LastToggle.staged # <<>>
    /\ LastToggle.name \in EnabledNames(LastToggle.before.tools)
    /\ Len(LastToggle.before.tools) > 1

\* toolHistory shows toggle(n, true) on a set without n, then toggle(n, false).
OnThenOff ==
    /\ Len(toolHistory) = 2
    /\ toolHistory[1].name = toolHistory[2].name
    /\ toolHistory[1].checked /\ ~toolHistory[2].checked
    /\ toolHistory[1].name \notin EnabledNames(toolHistory[1].before.tools)

\* C10: for every EnabledToolSet S without name, toggle(name, true) followed
\* immediately by toggle(name, false) yields the entries of S in the same
\* order, each with its extra config.
C10_OnThenOffRestores ==
    OnThenOff => params.tools = toolHistory[1].before.tools

\* On-then-off happened on a set of two entries, one carrying extra config.
C10_Witness ==
    /\ OnThenOff
    /\ Len(toolHistory[1].before.tools) = 2
    /\ toolHistory[1].before.tools[1].extra # NoExtra
    /\ toolHistory[2].before.tools = toolHistory[1].before.tools
                                        \o <<ToolRef(toolHistory[1].name, NoExtra)>>

\* C18: whenever toggle is called with the default file loader's name, for
\* either value of checked, the attached-file collection is cleared and fileIds
\* is set to empty.
C18_DefaultToggleClearsEitherWay ==
    (Toggled /\ isDefaultFileLoader(LastToggle.name))
        => /\ params.fileIds = <<>>
           /\ composerFiles = <<>>

\* The default file loader was switched on while files were attached.
C18_Witness ==
    /\ Toggled /\ isDefaultFileLoader(LastToggle.name) /\ LastToggle.checked
    /\ LastToggle.before.fileIds # <<>>
    /\ LastToggle.staged # <<>>
    /\ LastToggle.name \notin EnabledNames(LastToggle.before.tools)

\* The entries of an EnabledToolSet whose name is not the one given.
OtherEntries(tools, name) ==
    LET Other(enabledTool) == enabledTool.name # name IN SelectSeq(tools, Other)

\* C19: toggle(name, checked) with name other than the default file loader's
\* leaves fileIds, the staging collection and deploymentConfig unchanged, and
\* every entry with a different name unchanged and in the same relative order;
\* toggle(name, false) for a name not in the set leaves the set unchanged.
C19_OtherToggleFrame ==
    /\ (Toggled /\ ~isDefaultFileLoader(LastToggle.name))
          => /\ params.fileIds = LastToggle.before.fileIds
             /\ composerFiles = LastToggle.staged
             /\ params.deploymentConfig = LastToggle.before.deploymentConfig
             /\ OtherEntries(params.tools, LastToggle.name)
                    = OtherEntries(LastToggle.before.tools, LastToggle.name)
    /\ (/\ Toggled /\ ~LastToggle.checked
        /\ LastToggle.name \notin EnabledNames(LastToggle.before.tools))
          => params.tools = LastToggle.before.tools

\* A tool other than the default file loader was switched off among two other
\* entries, with files attached and a saved deploymentConfig.
C19_Witness ==
    /\ Toggled /\ defaultFileLoaderTool.defined
    /\ ~isDefaultFileLoader(LastToggle.name) /\ ~LastToggle.checked
    /\ LastToggle.name \in EnabledNames(LastToggle.before.tools)
    /\ Len(params.tools) = 2
    /\ params.fileIds # <<>> /\ composerFiles # <<>>
    /\ params.deploymentConfig # ""

\* ------------------------------------------- handleToggle, statement by statement
\* The same handler with every store write as a step of its own, so that the
\* states a store subscriber can see between the writes are states of the model.
\* togglePc is the statement the running call has reached; toolHistory holds the
\* running call.

\* const newParams = { tools: checked ? [...] : enabledTools.filter(...) };
buildNewParams(name, checked) ==
    /\ newParams' = [tools |-> toggledTools(name, checked)]
    /\ toolHistory' = <<ToggleCall(name, checked)>>
    /\ UNCHANGED <<params, composerFiles, defaultFileLoaderTool>>

\* A plausible slip: the tool list committed at once, the files dealt with
\* in the write that follows.
clearFilesIfDefault_toolsFirst ==
    /\ setParams(newParams)
    /\ IF isDefaultFileLoader(LastToggle.name)
       THEN /\ newParams' = [tools |-> newParams.tools, fileIds |-> <<>>]
            /\ clearComposerFiles
       ELSE UNCHANGED <<newParams, composerFiles>>
    /\ UNCHANGED <<toolHistory, defaultFileLoaderTool>>

\* if (name === defaultFileLoaderTool?.name) {
\*   newParams.fileIds = []; clearComposerFiles(); }
clearFilesIfDefault ==
    /\ IF isDefaultFileLoader(LastToggle.name)
       THEN /\ newParams' = [tools |-> newParams.tools, fileIds |-> <<>>]
            /\ clearComposerFiles
       ELSE UNCHANGED <<newParams, composerFiles>>
    /\ UNCHANGED <<params, toolHistory, defaultFileLoaderTool>>

\* setParams(newParams); the call returns and its local goes away.
commitNewParams ==
    /\ setParams(newParams)
    /\ newParams' = [tools |-> <<>>]
    /\ UNCHANGED <<composerFiles, toolHistory, defaultFileLoaderTool>>

\* The user flips a tool's switch: the handler is entered.
ToggleBuilds ==
    /\ togglePc = "idle"
    /\ \E name \in ToolNames, checked \in BOOLEAN :
          /\ checked => Len(enabledTools) < MaxTools
          /\ buildNewParams(name, checked)
    /\ togglePc' = "built"
    /\ UNCHANGED <<submitPc, configWrites, pickerVars, formVars, availVars, authVars>>

ToggleClears ==
    /\ togglePc = "built"
    /\ clearFilesIfDefault
    /\ togglePc' = "cleared"
    /\ UNCHANGED <<submitPc, configWrites, pickerVars, formVars, availVars, authVars>>

ToggleCommits ==
    /\ togglePc = "cleared"
    /\ commitNewParams
    /\ togglePc' = "idle"
    /\ UNCHANGED <<submitPc, configWrites, pickerVars, formVars, availVars, authVars>>

\* A session with any unique-name EnabledToolSet, any fileIds, any staged files.
InitToggleSteps ==
    /\ \E ts \in SeqsUpTo(ToolRefs, MaxTools), ids \in FileIdLists :
          /\ UniqueNames(ts)
          /\ params = [tools |-> ts, fileIds |-> ids, deploymentConfig |-> ""]
    /\ composerFiles \in FileIdLists
    /\ defaultFileLoaderTool \in {[defined |-> FALSE, name |-> ""],
                                  [defined |-> TRUE, name |-> "file_loader"]}
    /\ toolHistory = <<>>
    /\ IdlePicker /\ IdleForm /\ IdleAvail /\ IdleAuth /\ IdleSteps

NextToggleSteps == ToggleBuilds \/ ToggleClears \/ ToggleCommits

SpecToggleSteps == InitToggleSteps /\ [][NextToggleSteps]_vars

\* The running or last call is toggle(defaultFileLoaderName, false), and the
\* loader's entry, present when the call began, is gone from the EnabledToolSet.
DefaultLoaderRemoved ==
    /\ Toggled /\ isDefaultFileLoader(LastToggle.name) /\ ~LastToggle.checked
    /\ LastToggle.name \in EnabledNames(LastToggle.before.tools)
    /\ LastToggle.name \notin EnabledNames(params.tools)

\* C13: during toggle(defaultFileLoaderName, false) the clearing of the staged
\* files and of fileIds is applied no later than the EnabledToolSet change is
\* committed: no state between or after the steps has the default file loader
\* removed while fileIds or the staging collection still hold their prior
\* non-empty contents.
C13_ClearedNoLaterThanCommit ==
    DefaultLoaderRemoved
        => /\ ~(LastToggle.before.fileIds # <<>> /\ params.fileIds = LastToggle.before.fileIds)
           /\ ~(LastToggle.staged # <<>> /\ composerFiles = LastToggle.staged)

\* The staged files are already cleared while the loader's entry and the
\* fileIds are still in place: the state between the two store writes.
C13_Witness ==
    /\ togglePc = "cleared"
    /\ isDefaultFileLoader(LastToggle.name) /\ ~LastToggle.checked
    /\ LastToggle.staged # <<>> /\ composerFiles = <<>>
    /\ LastToggle.name \in EnabledNames(params.tools)
    /\ params.fileIds # <<>>

\* ================================================ useOpenGoogleDrivePicker

DocTypes == {"folder", "file"}
Docs == [type : DocTypes]

\* A PickerCallback: `docs` is undefined or an array of documents.
PickerResults ==
    {[hasDocs |-> FALSE, docs |-> <<>>]}
        \cup {[hasDocs |-> TRUE, docs |-> d] : d \in SeqsUpTo(Docs, MaxDocs)}

EitherNotice == "Please select either files or folders."
MaxFilesNotice == "You can only select a maximum of 5 files."
UnavailableNotice == "Google Drive is not available at the moment."

\* const folders = data.docs.filter((doc) => doc.type === 'folder');
folders(data) ==
    LET IsFolder(doc) == doc.type = "folder" IN SelectSeq(data.docs, IsFolder)

\* A plausible slip: the second filter left out.
files_unfiltered(data) == data.docs

\* const files = data.docs.filter((doc) => doc.type !== 'folder');
files(data) ==
    LET NotFolder(doc) == doc.type # "folder" IN SelectSeq(data.docs, NotFolder)

\* A plausible slip: `> 1` for `> 0` on the file count.
mixedSelection_twoFiles(data) == Len(folders(data)) > 0 /\ Len(files(data)) > 1

\* folders.length > 0 && files.length > 0
mixedSelection(data) == Len(folders(data)) > 0 /\ Len(files(data)) > 0

\* A plausible slip: `>=` for `>`.
tooManyFiles_offByOne(data) == Len(files(data)) >= MaxFiles

\* files.length > 5
tooManyFiles(data) == Len(files(data)) > MaxFiles

\* useNotify().info(message)
info(message) == notices' = Append(notices, message)

\* The caller-supplied callbackFunction(data)
callbackFunction(data) == forwarded' = Append(forwarded, data)

\* const handleCallback = (data: PickerCallback) => { ... }
handleCallback(data) ==
    IF ~data.hasDocs
    THEN UNCHANGED <<notices, forwarded>>
    ELSE IF mixedSelection(data)
    THEN info(EitherNotice) /\ UNCHANGED forwarded
    ELSE IF tooManyFiles(data)
    THEN info(MaxFilesNotice) /\ UNCHANGED forwarded
    ELSE callbackFunction(data) /\ UNCHANGED notices

\* What a picker-side call ran on.
PickCall(op, data) ==
    [op |-> op, data |-> data, notices |-> notices, forwarded |-> forwarded,
     params |-> params, staged |-> composerFiles, opens |-> pickerOpens]

NoData == [hasDocs |-> FALSE, docs |-> <<>>]

\* A plausible slip: `&&` for `||`.
unavailable_both == ~env.clientId /\ ~env.developerKey

\* if (!googleDriveClientId || !googleDriveDeveloperKey)
unavailable == ~env.clientId \/ ~env.developerKey

\* The function useOpenGoogleDrivePicker returns, invoked by the user.
OpenPicker ==
    /\ ~pickerOpen
    /\ pickerOpens + Len(SelectSeq(notices, LAMBDA n : n = UnavailableNotice)) < MaxPickerCalls
    /\ IF unavailable
       THEN /\ info(UnavailableNotice)
            /\ UNCHANGED <<pickerOpen, pickerOpens>>
       ELSE /\ pickerOpen' = TRUE
            /\ pickerOpens' = pickerOpens + 1
            /\ UNCHANGED notices
    /\ lastPick' = PickCall("open", NoData)
    /\ UNCHANGED <<env, forwarded, toolVars, formVars, availVars, authVars, stepVars>>

\* The picker widget hands its result to handleCallback and goes away.
PickerReturns ==
    /\ pickerOpen
    /\ \E data \in PickerResults :
          /\ handleCallback(data)
          /\ lastPick' = PickCall("callback", data)
    /\ pickerOpen' = FALSE
    /\ UNCHANGED <<env, pickerOpens, toolVars, formVars, availVars, authVars, stepVars>>

PopulatedParams ==
    [tools |-> <<ToolRef("drive", NoExtra)>>, fileIds |-> <<"a">>, deploymentConfig |-> ""]

InitPicker ==
    /\ env \in [clientId : BOOLEAN, developerKey : BOOLEAN]
    /\ pickerOpen = FALSE
    /\ pickerOpens = 0
    /\ notices = <<>>
    /\ forwarded = <<>>
    /\ lastPick = [op |-> "none"]
    /\ params \in {[tools |-> <<>>, fileIds |-> <<>>, deploymentConfig |-> ""],
                    PopulatedParams}
    /\ composerFiles = params.fileIds
    /\ defaultFileLoaderTool = [defined |-> FALSE, name |-> ""]
    /\ toolHistory = <<>>
    /\ IdleForm /\ IdleAvail /\ IdleAuth /\ IdleSteps

NextPicker == OpenPicker \/ PickerReturns

SpecPicker == InitPicker /\ [][NextPicker]_vars

\* handleCallback has just run on a result that carries docs.
Picked == lastPick.op = "callback" /\ lastPick.data.hasDocs
PickedDocs == lastPick.data.docs
FolderCount == Cardinality({i \in DOMAIN PickedDocs : PickedDocs[i].type = "folder"})
FileCount == Cardinality({i \in DOMAIN PickedDocs : PickedDocs[i].type # "folder"})

\* What the call left behind, against what it ran on.
NoticesAdded == SubSeq(notices, Len(lastPick.notices) + 1, Len(notices))
ForwardedAdded == SubSeq(forwarded, Len(lastPick.forwarded) + 1, Len(forwarded))
EarlierKept ==
    /\ SubSeq(notices, 1, Len(lastPick.notices)) = lastPick.notices
    /\ SubSeq(forwarded, 1, Len(lastPick.forwarded)) = lastPick.forwarded
SessionKept == params = lastPick.params /\ composerFiles = lastPick.staged

\* C3: a result with at least one folder and at least one non-folder (any
\* counts) is rejected as MixedSelection: the callback is not invoked, exactly
\* one notice, the either-files-or-folders one, is emitted, and no session
\* state changes.
C3_MixedRejected ==
    (Picked /\ FolderCount > 0 /\ FileCount > 0)
        => /\ EarlierKept
           /\ ForwardedAdded = <<>>
           /\ NoticesAdded = <<EitherNotice>>
           /\ SessionKept

\* A mixed selection with more than five files was handed in.
C3_Witness ==
    /\ Picked /\ FolderCount = 1 /\ FileCount > MaxFiles
    /\ lastPick.params = PopulatedParams

\* C4: a non-empty result that is all folders (any number) or all non-folder
\* files, at most 5 of them, is accepted: the callback is invoked exactly once
\* with the original result, and no notice is emitted.
C4_UniformAccepted ==
    (/\ Picked /\ PickedDocs # <<>>
     /\ \/ FileCount = 0
        \/ FolderCount = 0 /\ FileCount <= 5)
        => /\ EarlierKept
           /\ ForwardedAdded = <<lastPick.data>>
           /\ NoticesAdded = <<>>

\* Six folders were accepted after an earlier five-file selection.
C4_Witness ==
    /\ Picked /\ FolderCount = 6 /\ FileCount = 0
    /\ Len(forwarded) = 2
    /\ Len(forwarded[1].docs) = 5 /\ forwarded[1].docs[1].type = "file"

\* C5: a result with zero folders and more than 5 files is rejected as
\* TooManyFiles: no callback, exactly one max-5-files notice; exactly 5 files
\* and zero folders is not rejected.
C5_TooManyFilesRejected ==
    /\ (Picked /\ FolderCount = 0 /\ FileCount > 5)
          => /\ EarlierKept
             /\ ForwardedAdded = <<>>
             /\ NoticesAdded = <<MaxFilesNotice>>
    /\ (Picked /\ FolderCount = 0 /\ FileCount = 5)
          => /\ ForwardedAdded = <<lastPick.data>>
             /\ NoticesAdded = <<>>

\* Six files were rejected after five files had been accepted.
C5_Witness ==
    /\ Picked /\ FolderCount = 0 /\ FileCount = 6
    /\ lastPick.forwarded # <<>>
    /\ Len(lastPick.forwarded[1].docs) = 5 /\ lastPick.forwarded[1].docs[1].type = "file"

\* ========================================= useAvailableTools.availableTools

\* A ManagedTool of the catalog.
ManagedTools ==
    [name : ToolNames, is_visible : BOOLEAN, is_available : BOOLEAN]

\* managedTools?: undefined, or a catalog whose tool names are unique.
Catalogs ==
    {[defined |-> FALSE, data |-> <<>>]}
        \cup {[defined |-> TRUE, data |-> c] :
                c \in {d \in SeqsUpTo(ManagedTools, MaxCatalog) : UniqueNames(d)}}

AllowLists == SeqsUpTo(ToolNames, MaxCatalog)

\* agent?: undefined, an agent without `tools`, or an agent with an allowlist.
Agents ==
    {[defined |-> FALSE, hasTools |-> FALSE, tools |-> <<>>],
     [defined |-> TRUE, hasTools |-> FALSE, tools |-> <<>>]}
        \cup {[defined |-> TRUE, hasTools |-> TRUE, tools |-> a] : a \in AllowLists}

\* const requiredTools = agent?.tools;
requiredTools(ag) ==
    IF ag.defined /\ ag.hasTools
    THEN [defined |-> TRUE, names |-> ag.tools]
    ELSE [defined |-> FALSE, names |-> <<>>]

\* requiredTools.some((rt) => rt === t.name)
some(names, t) == \E i \in DOMAIN names : names[i] = t.name

\* A plausible slip: an empty allowlist treated like an absent one
\* (`!requiredTools?.length`).
availableTools_emptyIsAbsent(mt, ag) ==
    LET required == requiredTools(ag)
        Selectable(t) ==
            /\ t.is_visible
            /\ t.is_available
            /\ (~required.defined \/ required.names = <<>> \/ some(required.names, t))
    IN  SelectSeq(IF mt.defined THEN mt.data ELSE <<>>, Selectable)

\* (managedTools ?? []).filter((t) => t.is_visible && t.is_available &&
\*     (!requiredTools || requiredTools.some((rt) => rt === t.name)))
availableTools(mt, ag) ==
    LET required == requiredTools(ag)
        Selectable(t) ==
            /\ t.is_visible
            /\ t.is_available
            /\ (~required.defined \/ some(required.names, t))
    IN  SelectSeq(IF mt.defined THEN mt.data ELSE <<>>, Selectable)

\* The hook renders: useMemo computes availableTools from its dependencies.
Render ==
    /\ ~memo.computed
    /\ memo' = [computed |-> TRUE, value |-> availableTools(managedTools, agent)]
    /\ UNCHANGED <<managedTools, agent, toolVars, pickerVars, formVars,
                   authVars, stepVars>>

\* The agent prop changes; useMemo recomputes on the next render.
ChangeAgent ==
    /\ memo.computed
    /\ \E ag \in Agents :
          /\ ag # agent
          /\ agent' = ag
    /\ memo' = [computed |-> FALSE, value |-> <<>>]
    /\ UNCHANGED <<managedTools, toolVars, pickerVars, formVars, authVars, stepVars>>

InitAvail ==
    /\ managedTools \in Catalogs
    /\ agent \in Agents
    /\ memo = [computed |-> FALSE, value |-> <<>>]
    /\ IdleTools /\ IdlePicker /\ IdleForm /\ IdleAuth /\ IdleSteps

NextAvail == Render \/ ChangeAgent

SpecAvail == InitAvail /\ [][NextAvail]_vars

\* The catalog positions the filter rule selects, for the current agent.
Catalog == IF managedTools.defined THEN managedTools.data ELSE <<>>
AllowAbsent == ~(agent.defined /\ agent.hasTools)
SelectedAt ==
    {i \in DOMAIN Catalog :
        /\ Catalog[i].is_visible /\ Catalog[i].is_available
        /\ (AllowAbsent \/ Catalog[i].name \in Range(agent.tools))}

\* C9: availableTools(catalog, agent) is exactly the subsequence of catalog, in
\* catalog order, of the tools that are visible, available and allowed (allowlist
\* absent or containing the name); with agent.tools present (even empty) every
\* returned name is in agent.tools; with agent.tools absent the result is a
\* superset of the result for any allowlist.
C9_AvailableIsFilteredSubsequence ==
    memo.computed =>
        /\ Len(memo.value) = Cardinality(SelectedAt)
        /\ \E at \in [DOMAIN memo.value -> SelectedAt] :
              /\ \A j, k \in DOMAIN at : j < k => at[j] < at[k]
              /\ \A k \in DOMAIN at : memo.value[k] = Catalog[at[k]]
        /\ ~AllowAbsent => \A k \in DOMAIN memo.value :
                              memo.value[k].name \in Range(agent.tools)
        /\ AllowAbsent => \A a \in AllowLists :
              Range(availableTools(managedTools,
                        [defined |-> TRUE, hasTools |-> TRUE, tools |-> a]))
                  \subseteq Range(memo.value)

\* An allowlist kept the second tool of a two-tool catalog and shut out the
\* first, which is visible and available.
C9_Witness ==
    /\ memo.computed /\ ~AllowAbsent
    /\ Len(Catalog) = 2 /\ Len(memo.value) = 1
    /\ memo.value[1] = Catalog[2]
    /\ Catalog[1].is_visible /\ Catalog[1].is_available

\* ==================================================== EditEnvVariablesModal

DeploymentNames == {"prod", "dev"}
\* What the dropdown or the defaultDeployment prop may name: a deployment, none
\* (""), or one the catalog does not hold.
SelectableNames == DeploymentNames \cup {"", "gone"}
EnvVarNames == {"API_KEY", "REGION", "2"}
Values == {"", "x", "us"}

NoRepeats(s) == \A i, j \in DOMAIN s : s[i] = s[j] => i = j

\* A Deployment: { name, env_vars }.
Deployments ==
    [name : DeploymentNames,
     env_vars : {e \in SeqsUpTo(EnvVarNames, MaxEnvVars) : NoRepeats(e)}]

\* A DeploymentCatalog: deployments with unique names.
DeploymentCatalogs == {c \in SeqsUpTo(Deployments, MaxDeployments) : UniqueNames(c)}

\* ---- a JS object Record<string, string>: its properties in own-property order

Keys(obj) == {obj[i].key : i \in DOMAIN obj}
Get(obj, k) == (CHOOSE i \in DOMAIN obj : obj[i].key = k)
ValueOf(obj, k) == obj[Get(obj, k)].value

\* Property names that are canonical array indices, with their numeric value.
IndexValue == ("2" :> 2)
IsArrayIndex(k) == k \in DOMAIN IndexValue

\* OrdinaryOwnPropertyKeys: array-index keys in ascending numeric order, then
\* string keys in the order they were created.
OwnPropertyOrder(props) ==
    LET IsIndex(p) == IsArrayIndex(p.key)
        NotIndex(p) == ~IsArrayIndex(p.key)
        Ascending(p, q) == IndexValue[p.key] < IndexValue[q.key]
    IN  SortSeq(SelectSeq(props, IsIndex), Ascending) \o SelectSeq(props, NotIndex)

\* obj[k] = v
Put(obj, k, v) ==
    IF k \in Keys(obj)
    THEN [i \in DOMAIN obj |-> IF obj[i].key = k THEN [key |-> k, value |-> v] ELSE obj[i]]
    ELSE OwnPropertyOrder(Append(obj, [key |-> k, value |-> v]))

\* Object.entries(obj)
entries(obj) == OwnPropertyOrder(obj)

\* Array.prototype.join
RECURSIVE join(_, _)
join(parts, sep) ==
    IF parts = <<>> THEN ""
    ELSE IF Len(parts) = 1 THEN parts[1]
    ELSE parts[1] \o sep \o join(Tail(parts), sep)

\* deployments?.find(({ name }) => name === wanted)
find(query, wanted) ==
    LET hits == {i \in DOMAIN query.data : query.data[i].name = wanted}
    IN  IF query.loaded /\ hits # {}
        THEN [found |-> TRUE,
              value |-> query.data[CHOOSE i \in hits : \A j \in hits : i <= j]]
        ELSE [found |-> FALSE, value |-> [name |-> "", env_vars |-> <<>>]]

\* env_vars.reduce((acc, envVar) => { acc[envVar] = ''; return acc; }, acc)
RECURSIVE reduce(_, _)
reduce(env_vars, acc) ==
    IF env_vars = <<>> THEN acc
    ELSE reduce(Tail(env_vars), Put(acc, Head(env_vars), ""))

\* selectedDeployment?.env_vars.reduce(..., {}) ?? {}
emptyEnvVariables(query, wanted) ==
    LET selectedDeployment == find(query, wanted)
    IN  IF selectedDeployment.found
        THEN reduce(selectedDeployment.value.env_vars, <<>>)
        ELSE <<>>

\* What a form handler ran on.
FormCall(op, name, value) ==
    [op |-> op, name |-> name, value |-> value, draft |-> envVariables,
     loaded |-> deploymentsQuery.loaded,
     config |-> params.deploymentConfig, closes |-> closeCalls,
     params |-> params, prev |-> lastForm.op]

\* The query resolves: `deployments` turns from undefined into the catalog.
DeploymentsArrive ==
    /\ ~deploymentsQuery.loaded
    /\ deploymentsQuery' = [loaded |-> TRUE, data |-> backend]
    /\ UNCHANGED <<backend, deployment, envVariables, isSubmitting, modalOpen,
                   closeCalls, lastForm, toolVars, pickerVars, availVars,
                   authVars, stepVars>>

\* A plausible slip: the fresh draft spread under the old one
\* ({ ...emptyEnvVariables, ...envVariables }).
handleDeploymentChange_keepOld(newDeployment) ==
    /\ deployment' = newDeployment
    /\ envVariables' =
          LET fresh == emptyEnvVariables(deploymentsQuery, newDeployment)
              RECURSIVE Assign(_, _)
              Assign(acc, props) ==
                  IF props = <<>> THEN acc
                  ELSE Assign(Put(acc, Head(props).key, Head(props).value), Tail(props))
          IN  Assign(fresh, entries(envVariables))

\* const handleDeploymentChange = (newDeployment: string) => { ... }
handleDeploymentChange(newDeployment) ==
    /\ deployment' = newDeployment
    /\ envVariables' = emptyEnvVariables(deploymentsQuery, newDeployment)

\* The dropdown's onChange.  The handler copes with a name the catalog does
\* not hold, so it is offered every name.
SelectDeployment ==
    /\ modalOpen
    /\ \E newDeployment \in SelectableNames \ {""} :
          /\ handleDeploymentChange(newDeployment)
          /\ lastForm' = FormCall("select", newDeployment, "")
    /\ UNCHANGED <<deploymentsQuery, backend, isSubmitting, modalOpen, closeCalls,
                   toolVars, pickerVars, availVars, authVars, stepVars>>

\* setEnvVariables({ ...envVariables, [envVar]: e.target.value })
handleEnvVariableChange(envVar, value) ==
    envVariables' = Put(entries(envVariables), envVar, value)

\* The user types into the input rendered for one key of the draft.
ChangeEnvVariable ==
    /\ modalOpen
    /\ \E envVar \in Keys(envVariables), value \in Values :
          /\ handleEnvVariableChange(envVar, value)
          /\ lastForm' = FormCall("setField", envVar, value)
    /\ UNCHANGED <<deploymentsQuery, backend, deployment, isSubmitting, modalOpen,
                   closeCalls, toolVars, pickerVars, availVars, authVars, stepVars>>

\* The onClose prop: the context store's close(), which unmounts the modal.
onClose ==
    /\ closeCalls' = closeCalls + 1
    /\ modalOpen' = FALSE

\* Object.entries(envVariables).map(([k, v]) => k + '=' + v).join(';')
serialize(obj) ==
    LET pairs == entries(obj)
    IN  join([i \in DOMAIN pairs |-> pairs[i].key \o "=" \o pairs[i].value], ";")

\* A plausible slip: the `if (!deployment) return;` guard left out.
handleSubmit_noGuard ==
    /\ setParams([deploymentConfig |-> serialize(envVariables)])
    /\ isSubmitting' = FALSE
    /\ onClose

\* const handleSubmit = async () => { ... }
handleSubmit ==
    IF deployment = ""
    THEN UNCHANGED <<params, isSubmitting, modalOpen, closeCalls>>
    ELSE /\ setParams([deploymentConfig |-> serialize(envVariables)])
         /\ isSubmitting' = FALSE
         /\ onClose

\* The Save button.
Submit ==
    /\ modalOpen /\ ~isSubmitting
    /\ lastForm' = FormCall("submit", deployment, "")
    /\ handleSubmit
    /\ UNCHANGED <<deploymentsQuery, backend, deployment, envVariables,
                   composerFiles, defaultFileLoaderTool, toolHistory,
                   pickerVars, availVars, authVars, stepVars>>

\* The Cancel button.
Cancel ==
    /\ modalOpen
    /\ onClose
    /\ lastForm' = FormCall("cancel", deployment, "")
    /\ UNCHANGED <<deploymentsQuery, backend, deployment, envVariables, isSubmitting,
                   toolVars, pickerVars, availVars, authVars, stepVars>>

\* The modal mounts with a defaultDeployment prop ("" from
\* EditEnvVariablesButton.handleClick), before or after the query resolved.
InitForm ==
    /\ backend \in DeploymentCatalogs
    /\ deploymentsQuery \in {[loaded |-> FALSE, data |-> <<>>],
                              [loaded |-> TRUE, data |-> backend]}
    /\ deployment \in SelectableNames
    /\ envVariables = emptyEnvVariables(deploymentsQuery, deployment)
    /\ isSubmitting = FALSE
    /\ modalOpen = TRUE
    /\ closeCalls = 0
    /\ lastForm = [op |-> "none"]
    /\ params \in {[tools |-> <<>>, fileIds |-> <<>>, deploymentConfig |-> ""],
                    [tools |-> <<ToolRef("drive", NoExtra)>>, fileIds |-> <<"a">>,
                     deploymentConfig |-> "API_KEY=x"]}
    /\ composerFiles = params.fileIds
    /\ defaultFileLoaderTool = [defined |-> FALSE, name |-> ""]
    /\ toolHistory = <<>>
    /\ IdlePicker /\ IdleAvail /\ IdleAuth /\ IdleSteps

NextForm == DeploymentsArrive \/ SelectDeployment \/ ChangeEnvVariable \/ Submit \/ Cancel

SpecForm == InitForm /\ [][NextForm]_vars

\* The catalog entry the form's selection names, once the catalog is there.
Selected == find(deploymentsQuery, deployment)
SelectedEnvVars == IF Selected.found THEN Range(Selected.value.env_vars) ELSE {}

\* handleDeploymentChange has just run with a name the loaded catalog holds.
SelectedFromCatalog == lastForm.op = "select" /\ lastForm.loaded /\ Selected.found

\* C6: from any prior form state, selectDeployment(name) with name in the
\* DeploymentCatalog yields a draft whose key set is exactly that deployment's
\* env_vars and whose values are all empty, even where the previous draft held
\* a non-empty value under the same name.
C6_SelectResetsDraft ==
    (SelectedFromCatalog /\ deployment = lastForm.name)
        => /\ Keys(envVariables) = Range(Selected.value.env_vars)
           /\ Len(envVariables) = Cardinality(Keys(envVariables))
           /\ \A i \in DOMAIN envVariables : envVariables[i].value = ""

\* A deployment was selected while the draft held a non-empty value for one of
\* its variables and a key it does not have.
C6_Witness ==
    /\ SelectedFromCatalog /\ deployment = lastForm.name
    /\ \E k \in Keys(lastForm.draft) \cap Keys(envVariables) :
          ValueOf(lastForm.draft, k) # ""
    /\ Keys(lastForm.draft) \ Keys(envVariables) # {}

\* C7: in every reachable state of the form (mount with any defaultDeployment,
\* any interleaving of selectDeployment, setField and the catalog's arrival)
\* the draft's key set is exactly the env_vars of the selected deployment;
\* setField never adds or removes a key.
C7_DraftKeysAreEnvVars ==
    /\ Keys(envVariables) = SelectedEnvVars
    /\ lastForm.op = "setField" => Keys(envVariables) = Keys(lastForm.draft)

\* The configuration string of NAME=VALUE pairs in env_vars order.
RECURSIVE InEnvVarsOrder(_, _)
InEnvVarsOrder(env_vars, draft) ==
    IF env_vars = <<>> THEN ""
    ELSE LET name == Head(env_vars)
             pair == name \o "=" \o (IF name \in Keys(draft) THEN ValueOf(draft, name) ELSE "")
         IN  IF Len(env_vars) = 1 THEN pair
             ELSE pair \o ";" \o InEnvVarsOrder(Tail(env_vars), draft)

\* C8: submit() with a deployment selected writes into deploymentConfig the
\* NAME=VALUE pairs joined by ';', one per variable, in the order of the
\* deployment's env_vars, for every env_vars sequence and every values.
C8_ConfigInEnvVarsOrder ==
    (lastForm.op = "submit" /\ Selected.found)
        => params.deploymentConfig = InEnvVarsOrder(Selected.value.env_vars, envVariables)

\* C14: a picker result whose docs is absent or is an empty sequence is rejected
\* silently: the caller-supplied callback is not invoked and no notice is
\* emitted.
C14_EmptyRejectedSilently ==
    (Picked /\ (~lastPick.data.hasDocs \/ PickedDocs = <<>>))
        => /\ ForwardedAdded = <<>>
           /\ NoticesAdded = <<>>

\* C12: with the picker client id or the developer key missing, no sequence of
\* picker-open invocations opens the picker, and each invocation does nothing
\* but emit one Unavailable notice; the picker is opened only with both
\* configuration values present.
C12_NeverOpenedUnconfigured ==
    /\ (~env.clientId \/ ~env.developerKey) =>
          /\ pickerOpens = 0 /\ ~pickerOpen
          /\ forwarded = <<>>
          /\ \A i \in DOMAIN notices : notices[i] = UnavailableNotice
          /\ lastPick.op = "open" =>
                /\ notices = Append(lastPick.notices, UnavailableNotice)
                /\ forwarded = lastPick.forwarded
                /\ params = lastPick.params /\ composerFiles = lastPick.staged
    /\ (pickerOpens > 0 \/ pickerOpen) => (env.clientId /\ env.developerKey)

\* Only the developer key is missing and the picker was asked for twice.
C12_Witness ==
    /\ env.clientId /\ ~env.developerKey
    /\ lastPick.op = "open" /\ Len(notices) = 2
    /\ params = PopulatedParams

\* C15: selectDeployment(name) with a name the DeploymentCatalog does not hold
\* leaves the form with no deployment selected: the draft becomes the empty
\* mapping, and a subsequent submit() is a no-op (nothing is written to
\* deploymentConfig and the close continuation is not invoked).
C15_UnknownSelectionUnselects ==
    /\ (/\ lastForm.op = "select" /\ lastForm.loaded
        /\ ~find(deploymentsQuery, lastForm.name).found)
          => envVariables = <<>>
    /\ (/\ lastForm.op = "submit" /\ lastForm.prev = "select" /\ lastForm.loaded
        /\ ~find(deploymentsQuery, lastForm.name).found)
          => /\ params = lastForm.params
             /\ closeCalls = lastForm.closes
             /\ modalOpen

\* C17: submit() while no deployment is selected is a no-op: SessionParameters
\* (deploymentConfig, tools, fileIds), the draft and the submitting flag are
\* unchanged, and the close continuation is not invoked.
C17_SubmitUnselectedNoOp ==
    (lastForm.op = "submit" /\ lastForm.name = "")
        => /\ params = lastForm.params
           /\ envVariables = lastForm.draft
           /\ ~isSubmitting
           /\ closeCalls = lastForm.closes /\ modalOpen

\* Save was pressed on the form as handleClick mounts it, in a session that
\* already holds tools, fileIds and a saved deploymentConfig.
C17_Witness ==
    /\ lastForm.op = "submit" /\ lastForm.name = "" /\ deployment = ""
    /\ deploymentsQuery.loaded /\ Len(deploymentsQuery.data) = 2
    /\ params.deploymentConfig # "" /\ params.tools # <<>> /\ params.fileIds # <<>>

\* -------------------------------------------- handleSubmit, statement by statement
\* The same handler with every setter call as a step of its own.  submitPc is
\* the statement the running call has reached; configWrites counts the writes
\* of deploymentConfig.

\* setIsSubmitting(true);
beginSubmitting == isSubmitting' = TRUE

\* setParams({ deploymentConfig: Object.entries(envVariables)...join(';') });
writeDeploymentConfig ==
    /\ setParams([deploymentConfig |-> serialize(envVariables)])
    /\ configWrites' = configWrites + 1

\* A plausible slip: the flag never reset.
endSubmitting_omitted == UNCHANGED isSubmitting

\* setIsSubmitting(false);
endSubmitting == isSubmitting' = FALSE

\* The Save button: `if (!deployment) return;`, else the first setter.
SubmitBegins ==
    /\ submitPc = "idle"
    /\ modalOpen /\ ~isSubmitting
    /\ lastForm' = FormCall("submit", deployment, "")
    /\ IF deployment = ""
       THEN UNCHANGED <<isSubmitting, submitPc>>
       ELSE beginSubmitting /\ submitPc' = "submitting"
    /\ UNCHANGED <<deploymentsQuery, backend, deployment, envVariables, modalOpen,
                   closeCalls, togglePc, newParams, configWrites,
                   toolVars, pickerVars, availVars, authVars>>

SubmitWrites ==
    /\ submitPc = "submitting"
    /\ writeDeploymentConfig
    /\ submitPc' = "written"
    /\ UNCHANGED <<formVars, composerFiles, defaultFileLoaderTool, toolHistory,
                   togglePc, newParams, pickerVars, availVars, authVars>>

SubmitEnds ==
    /\ submitPc = "written"
    /\ endSubmitting
    /\ submitPc' = "ended"
    /\ UNCHANGED <<deploymentsQuery, backend, deployment, envVariables, modalOpen,
                   closeCalls, lastForm, togglePc, newParams, configWrites,
                   toolVars, pickerVars, availVars, authVars>>

SubmitCloses ==
    /\ submitPc = "ended"
    /\ onClose
    /\ submitPc' = "idle"
    /\ UNCHANGED <<deploymentsQuery, backend, deployment, envVariables, isSubmitting,
                   lastForm, togglePc, newParams, configWrites,
                   toolVars, pickerVars, availVars, authVars>>

\* What the user and the query can do while no handler is running.
Editing ==
    /\ submitPc = "idle"
    /\ DeploymentsArrive \/ SelectDeployment \/ ChangeEnvVariable \/ Cancel

NextSubmitSteps == Editing \/ SubmitBegins \/ SubmitWrites \/ SubmitEnds \/ SubmitCloses

SpecSubmitSteps == InitForm /\ [][NextSubmitSteps]_vars

\* handleSubmit was entered with a deployment selected.
SubmitEntered == lastForm.op = "submit" /\ lastForm.name # ""

\* SessionParameters as the entered submit found them, deploymentConfig replaced.
ConfigReplaced ==
    [lastForm.params EXCEPT !.deploymentConfig = serialize(lastForm.draft)]

\* C16: submit() with a deployment selected goes Editing -> Submitting ->
\* Closed: deploymentConfig is written exactly once, as a single-field replace
\* and before the close continuation is invoked; the close continuation is
\* invoked exactly once, with the submitting flag false again; deploymentConfig
\* is never seen partially written.
C16_SubmitWritesOnceThenCloses ==
    /\ configWrites <= 1
    /\ configWrites = 0 => params.deploymentConfig = IF lastForm.op = "none"
                                                      THEN params.deploymentConfig
                                                      ELSE lastForm.config
    /\ SubmitEntered =>
          /\ submitPc = "submitting" =>
                /\ isSubmitting /\ modalOpen /\ configWrites = 0
                /\ closeCalls = lastForm.closes /\ params = lastForm.params
          /\ submitPc = "written" =>
                /\ isSubmitting /\ modalOpen /\ configWrites = 1
                /\ closeCalls = lastForm.closes /\ params = ConfigReplaced
          /\ submitPc = "ended" =>
                /\ ~isSubmitting /\ modalOpen /\ configWrites = 1
                /\ closeCalls = lastForm.closes /\ params = ConfigReplaced
          /\ submitPc = "idle" =>
                /\ ~isSubmitting /\ ~modalOpen /\ configWrites = 1
                /\ closeCalls = lastForm.closes + 1 /\ params = ConfigReplaced
    /\ closeCalls <= 1

\* A submit ran to its end: a two-variable draft replaced a saved
\* deploymentConfig, the session's tools and fileIds stayed, the modal closed.
C16_Witness ==
    /\ SubmitEntered /\ submitPc = "idle" /\ ~modalOpen
    /\ Len(lastForm.draft) = 2
    /\ lastForm.config = "API_KEY=x" /\ params.deploymentConfig # lastForm.config
    /\ params.tools # <<>> /\ params.fileIds # <<>>

\* ===================================== useUnauthedTools, useShowUnauthedToolsModal

\* A ManagedTool as useListTools returns it; is_visible and is_available do not
\* enter these hooks and are held at TRUE.
ListedTools ==
    [name : ToolNames, is_visible : {TRUE}, is_available : {TRUE},
     is_auth_required : BOOLEAN]

\* The order in which the backend lists the tools it knows.
ListingOrder == <<"file_loader", "web_search", "drive">>

\* The place of a tool name in the backend's listing.
ListedAt(name) == CHOOSE i \in DOMAIN ListingOrder : ListingOrder[i] = name

\* A catalog lists each tool once, in the backend's order.
InListingOrder(c) ==
    \A i, j \in DOMAIN c : i < j => ListedAt(c[i].name) < ListedAt(c[j].name)

\* useListTools().data: undefined, or a catalog.
ToolLists ==
    {[loaded |-> FALSE, data |-> <<>>]}
        \cup {[loaded |-> TRUE, data |-> c] :
                c \in {d \in SeqsUpTo(ListedTools, MaxCatalog) : InListingOrder(d)}}

\* A plausible slip: only the enabled tools are asked for authentication.
unauthedTools_enabledOnly ==
    LET NeedsAuth(tool) ==
            tool.is_auth_required /\ tool.name \in EnabledNames(params.tools)
    IN  IF toolsQuery.loaded THEN SelectSeq(toolsQuery.data, NeedsAuth) ELSE <<>>

\* const unauthedTools = tools?.filter((tool) => tool.is_auth_required) ?? [];
unauthedTools ==
    LET NeedsAuth(tool) == tool.is_auth_required
    IN  IF toolsQuery.loaded THEN SelectSeq(toolsQuery.data, NeedsAuth) ELSE <<>>

\* const isToolAuthRequired = unauthedTools.length > 0;
isToolAuthRequired == Len(unauthedTools) > 0

\* A plausible slip: `||` for `&&`.
show_or == ~hasDismissed \/ isToolAuthRequired

\* show: !hasDismissed && isToolAuthRequired
show == ~hasDismissed /\ isToolAuthRequired

\* What the two hooks return on a render.
hookResult ==
    [unauthedTools |-> unauthedTools, isToolAuthRequired |-> isToolAuthRequired,
     show |-> show]

\* onDismissed: () => set(true)
onDismissed ==
    /\ hasDismissed' = TRUE
    /\ dismissed' = TRUE

\* The user dismisses the notice; the hooks render again.
Dismiss ==
    /\ onDismissed
    /\ UNCHANGED toolsQuery
    /\ UNCHANGED <<toolVars, pickerVars, formVars, availVars, stepVars>>
    /\ rendered' = hookResult'

\* The tools query resolves or is fetched again with another answer.
ListToolsResolves ==
    /\ \E answer \in ToolLists :
          /\ answer.loaded /\ answer # toolsQuery
          /\ toolsQuery' = answer
    /\ UNCHANGED <<hasDismissed, dismissed>>
    /\ UNCHANGED <<toolVars, pickerVars, formVars, availVars, stepVars>>
    /\ rendered' = hookResult'

\* The user flips the switch of a listed tool; the hooks render again.
ToggleAndRender ==
    /\ \E name \in {tool.name : tool \in Range(toolsQuery.data)}, checked \in BOOLEAN :
          /\ checked => Len(enabledTools) < MaxTools
          /\ handleToggle(name, checked)
    /\ UNCHANGED <<toolsQuery, hasDismissed, dismissed>>
    /\ rendered' = hookResult'
    /\ UNCHANGED <<pickerVars, formVars, availVars, stepVars>>

\* First render: any answer or none yet, the flag as an earlier visit left it.
InitAuth ==
    /\ toolsQuery \in ToolLists
    /\ hasDismissed \in BOOLEAN
    /\ dismissed = FALSE
    /\ params = [tools |-> <<>>, fileIds |-> <<>>, deploymentConfig |-> ""]
    /\ composerFiles = <<>>
    /\ defaultFileLoaderTool = [defined |-> TRUE, name |-> "file_loader"]
    /\ toolHistory = <<>>
    /\ rendered = hookResult
    /\ IdlePicker /\ IdleForm /\ IdleAvail /\ IdleSteps

NextAuth == Dismiss \/ ListToolsResolves \/ ToggleAndRender

SpecAuth == InitAuth /\ [][NextAuth]_vars

\* The catalog positions holding a tool that requires authentication.
AuthRequiredAt == {i \in DOMAIN toolsQuery.data : toolsQuery.data[i].is_auth_required}

\* A handleToggle call is what this step made.
ToggleStep == toolHistory' # toolHistory

\* C11: unauthedTools is exactly the catalog tools with is_auth_required true and
\* toolAuthRequired is true iff that list is non-empty; across toggles, with
\* the catalog fixed, neither changes.
C11_UnauthedIndependentOfToggles ==
    /\ [](/\ Len(rendered.unauthedTools) = Cardinality(AuthRequiredAt)
          /\ Range(rendered.unauthedTools) = {toolsQuery.data[i] : i \in AuthRequiredAt}
          /\ rendered.isToolAuthRequired <=> AuthRequiredAt # {})
    /\ [][ToggleStep =>
            /\ rendered'.unauthedTools = rendered.unauthedTools
            /\ rendered'.isToolAuthRequired = rendered.isToolAuthRequired]_vars

\* A tool that requires authentication was enabled while another was listed.
C11_Witness ==
    /\ toolHistory # <<>> /\ toolHistory[Len(toolHistory)].checked
    /\ Len(toolsQuery.data) = 2 /\ Len(rendered.unauthedTools) = 1
    /\ rendered.unauthedTools[1].name = toolHistory[Len(toolHistory)].name
    /\ rendered.unauthedTools[1].name \in EnabledNames(params.tools)

\* C20: the auth-required-tools notice is shown exactly when the DismissalFlag
\* is false and toolAuthRequired is true; once onDismissed has been invoked the
\* flag stays true and the notice is not shown in any later state, whatever
\* the catalog or the toggles do.
C20_ShownUntilDismissed ==
    /\ rendered.show <=> (~hasDismissed /\ rendered.isToolAuthRequired)
    /\ dismissed => (hasDismissed /\ ~rendered.show)

\* After a dismissal the catalog came to require authentication and a tool
\* was toggled.
C20_Witness ==
    /\ dismissed /\ rendered.isToolAuthRequired
    /\ toolHistory # <<>>
    /\ ~toolsQuery.data[1].is_auth_required

====
